---- MODULE Spec2Model ----
(***************************************************************************)
(* One-time token protocol of the e-commerce API: the Redis-backed         *)
(* RedisTokenStore (catalogue/redis_token_store.py), the token classes     *)
(* (catalogue/tokens.py) and the endpoints of catalogue/views.py that mint *)
(* and redeem email-verification and password-reset tokens.                *)
(*                                                                         *)
(* The clock counts whole seconds; a timedelta and a token's exp are       *)
(* integer numbers of milliseconds, so that int(ttl.total_seconds())       *)
(* truncates.                                                              *)
(***************************************************************************)
EXTENDS Integers, FiniteSets, Sequences, TLC

VARIABLES
    redis,      \* the Redis keyspace: key |-> [val, ttl] for every live key
    now,        \* the clock, in seconds
    procs,      \* one record per worker: the call or request it runs, its locals
    last,       \* the request that was answered last, with its response
    users,      \* the User table: user_id |-> row
    minted,     \* every token signed so far
    mint,       \* the minting request in flight
    created,    \* history: <<type, jti>> |-> records created for the pair
    won,        \* history: <<type, jti>> |-> pops of the pair that returned True
    lost,       \* history: <<type, jti>> |-> records deleted by a pop whose reply was lost
    evictedK,   \* history: key |-> records of the key evicted by their TTL
    stored,     \* history: <<type, jti>> |-> the ttl of the last store() call that found the key absent
    restored,   \* history: pairs on which a store() call met a live record
    log,        \* history: <<type, jti>> |-> results of the direct pop and exists calls since that store() call
    nstores,    \* history: number of direct store() calls
    nreqs,      \* history: number of redemption requests started
    seenCauses, \* history: why the pops of the endpoints that returned False found no record
    nf404,      \* history: pairs consumed by a request that then found no user
    acts,       \* history: <<type, jti>> |-> bound actions run for the token
    subject,    \* the token type the direct calls of the store use
    peeks,      \* history: <<check, <<type, jti>>>> for every exists() and dry run that found the live record's token valid
    login,      \* the login request that was answered last, with its response
    jwts,       \* history: the users an access and refresh token pair was issued to
    nlogins,    \* history: number of login requests
    BlockedIP,  \* the BlockedIP table: the set of ip_address values
    RequestLog, \* the RequestLog table: the rows in the order they were created
    geoCache,   \* the cache entries geo_<ip>: ip |-> [value, expires]
    geoCalls,   \* the calls of get_geolocation made outside a request, each with its position and its history
    geoClock,   \* the time of the cache, in seconds
    accReqs,    \* the requests of authenticated users to their account: request.user of those in flight
    mwReqs,     \* the requests the middleware received, each with its position and its history
    images,     \* the ProductImage table: image_id |-> [product, is_primary]
    imgReqs,    \* the product-image requests received: the locals of those in flight
    imgLast,    \* the product-image request that was answered last, with its response
    catalog,    \* the Product and Category tables: <<model, id>> |-> number of writes to the row
    changes,    \* history: the requests that wrote to those tables
    apiLast,    \* the product or category request that was answered last, with its response
    napi,       \* history: number of product and category requests
    reviews,    \* the Review table: the rows in the order they were created
    revReqs,    \* the review creations received: the validated data of those in flight
    outbox,     \* the 'ecommerce' queue: the task messages waiting for a worker
    resent,     \* the resend-verification request that was answered last, with its response
    runs,       \* history: <<task, jti>> |-> the executions of the task so far and how it stands
    ndelays     \* history: number of tasks enqueued from outside the minting endpoints

\* the state of the token store, of the endpoints that use it, and its history
tokenVars == <<redis, now, procs, last, minted, mint, created, won, lost,
               evictedK, stored, restored, log, nstores, nreqs, seenCauses,
               nf404, acts, subject, peeks>>
loginVars == <<login, jwts, nlogins>>
\* the state of the rest of the API
mwVars == <<BlockedIP, RequestLog, geoCache, mwReqs>>
imageVars == <<images, imgReqs, imgLast>>
catalogVars == <<catalog, changes, apiLast, napi>>
reviewVars == <<reviews, revReqs>>
geoVars == <<geoCalls, geoClock>>
accountVars == <<accReqs>>
queueVars == <<outbox, resent>>
\* the state of the rest of the API but the task queue
siteVars == <<loginVars, mwVars, imageVars, catalogVars, reviewVars, geoVars,
             accountVars>>
workerVars == <<runs, ndelays>>
webVars == <<siteVars, queueVars, workerVars>>

vars == <<tokenVars, users, webVars>>

-----------------------------------------------------------------------------
\* Bounds of the model.

MaxTime == 1
MaxStores == 2
MaxMint == 2
MaxReqs == 3
MaxLogins == 3
MaxMwReqs == 2
MaxImgReqs == 3
MaxApiReqs == 3
MaxRevReqs == 3
MaxTasks == 2
MaxGeoCalls == 4
MaxGeoTicks == 2
MaxAccReqs == 2

\* the workers, in the order they are handed calls and requests
ProcOrder == <<"p1", "p2", "p3">>
Procs == {ProcOrder[i] : i \in DOMAIN ProcOrder}
TokenTypes == {"email", "password_reset"}
RawJtis == {"a"}
Uids == {"u1"}
\* the jti of the tokens of one type, in the order they are minted
JtiNames == <<"a", "b", "c", "d">>
\* timedeltas offered to store(), in milliseconds: -1 s, 0 s, 0.5 s and whole
\* seconds up to one more than the clock can reach
TtlChoices == {-1000, 0, 500} \cup {1000 * s : s \in 1..(MaxTime + 1)}
\* outcome of one round trip to Redis: answered, never delivered
\* (ConnectionError), or executed with the reply lost (TimeoutError)
NetOutcomes == {"ok", "conn_error", "timeout"}

NoToken == [sig |-> "none", token_type |-> "", jti |-> "", user_id |-> "",
            iat |-> 0, exp |-> 0]
NoUser == [found |-> FALSE, is_active |-> FALSE, password |-> ""]
NoResp == [status |-> 0, detail |-> ""]
NoArg == <<"", "">>

IdleProc == [pc |-> "idle", view |-> "", token |-> NoToken, good |-> FALSE,
             arg |-> NoArg, ret |-> FALSE, path |-> "", cause |-> "",
             fault |-> FALSE, replay404 |-> FALSE, user |-> NoUser,
             resp |-> NoResp, acted |-> FALSE]

\* a free worker is taken in order: the workers are interchangeable
NextFree(p) ==
    /\ procs[p].pc = "idle"
    /\ \A i, j \in DOMAIN ProcOrder :
           (i < j /\ ProcOrder[j] = p) => procs[ProcOrder[i]].pc # "idle"

\* Worker p goes on as rec; when rec carries its response, the response is
\* sent and the worker is free again.
Respond(p, rec) ==
    /\ procs' = [procs EXCEPT ![p] = IF rec.pc = "done" THEN IdleProc ELSE rec]
    /\ last' = IF rec.pc = "done" THEN rec ELSE last

-----------------------------------------------------------------------------
\* Finite maps with a default.

Cnt(f, k) == IF k \in DOMAIN f THEN f[k] ELSE 0
Inc(f, k) == (k :> (Cnt(f, k) + 1)) @@ f
Put(f, k, v) == (k :> v) @@ f
Drop(f, k) == [x \in DOMAIN f \ {k} |-> f[x]]

-----------------------------------------------------------------------------
\* catalogue/tokens.py and the simplejwt Token it extends

\* settings.EMAIL_VERIFICATION_TOKEN_LIFETIME, in milliseconds: the longer
\* window, and one that is no whole number of seconds
EMAIL_VERIFICATION_TOKEN_LIFETIME == 1500
\* settings.PASSWORD_RESET_TOKEN_LIFETIME, in milliseconds: the shorter window
PASSWORD_RESET_TOKEN_LIFETIME == 1000

lifetime(token_type) ==
    IF token_type = "email" THEN EMAIL_VERIFICATION_TOKEN_LIFETIME
    ELSE PASSWORD_RESET_TOKEN_LIFETIME

NowMs == now * 1000

\* Token.for_user: a fresh jti, iat = now, exp = now + lifetime, signed
for_user(token_type, user_id) ==
    [sig |-> "ok", token_type |-> token_type,
     jti |-> JtiNames[Cardinality({t \in minted : t.token_type = token_type}) + 1],
     user_id |-> user_id, iat |-> NowMs, exp |-> NowMs + lifetime(token_type)]

\* UntypedToken(token) raises TokenError: a string that is no JWT, a signature
\* that does not verify, or exp <= now
TokenError(tok) == tok.sig # "ok" \/ tok.exp <= NowMs

\* What a client can send: a minted token, a minted token with its expiry
\* rewritten (the signature no longer verifies), a string that is no JWT.
Tampered(tok) == [tok EXCEPT !.sig = "bad", !.exp = (MaxTime + 1) * 1000]
Garbage == [NoToken EXCEPT !.sig = "malformed"]
Presentable == minted \cup {Tampered(t) : t \in minted} \cup {Garbage}

-----------------------------------------------------------------------------
\* The responses of VerifyEmailView and PasswordResetConfirmView.

Views == {"verify", "reset", "reset_dry"}
IsReset(view) == view \in {"reset", "reset_dry"}
TypeOf(view) == IF IsReset(view) THEN "password_reset" ELSE "email"

Resp(status, detail) == [status |-> status, detail |-> detail]

InvalidOrExpired(view) ==
    Resp(400, IF IsReset(view) THEN "Invalid or expired token."
              ELSE "Invalid or expired token")
InvalidTokenType(view) ==
    Resp(400, IF IsReset(view) THEN "Invalid token type." ELSE "Invalid token type")
AlreadyUsed(view) == Resp(400, "Token already used or not found.")

\* the missing user answered as a used token: the mutant of UserNotFound
UserNotFoundAsUsed(view) == AlreadyUsed(view)

UserNotFound(view) ==
    Resp(404, IF IsReset(view) THEN "User not found." ELSE "User not found")
TokenIsValid == Resp(200, "Token is valid.")
AlreadyVerified == Resp(200, "Email already verified")
Success(view) ==
    Resp(200, IF IsReset(view) THEN "Password reset successful."
              ELSE "Email verified successfully")
\* an exception no view catches: the framework's answer
ServerError == Resp(500, "Server Error (500)")

\* the response leaves; the instance read from the database is dropped
Done(rec, resp) == [rec EXCEPT !.pc = "done", !.resp = resp, !.user = NoUser]

\* the checks without the token_type test: the mutant of Check
CheckNoType(view, tok) ==
    IF TokenError(tok) THEN InvalidOrExpired(view) ELSE NoResp

\* _verify_token lines 233-244, _verify_token_and_reset_password lines
\* 609-620: the rejection, or NoResp when the token passes
Check(view, tok) ==
    IF TokenError(tok) THEN InvalidOrExpired(view)
    ELSE IF tok.token_type # TypeOf(view) THEN InvalidTokenType(view)
    ELSE NoResp

\* the result of pop ignored: a mutant of OnPopReturn
OnPopReturnIgnored(rec) ==
    IF rec.view = "raw" THEN rec ELSE [rec EXCEPT !.pc = "lookup"]

\* a False pop answered by its cause: a mutant of OnPopReturn
OnPopReturnLeaky(rec) ==
    IF rec.view = "raw" THEN rec
    ELSE IF rec.ret THEN [rec EXCEPT !.pc = "lookup"]
    ELSE IF rec.cause = "redeemed" THEN Done(rec, AlreadyUsed(rec.view))
    ELSE Done(rec, InvalidOrExpired(rec.view))

\* The caller of pop once pop returned: the direct caller holds the result;
\* the views (lines 249-253, 626-630) answer 400 on False and go on on True.
OnPopReturn(rec) ==
    IF rec.view = "raw" THEN rec
    ELSE IF rec.ret THEN [rec EXCEPT !.pc = "lookup"]
    ELSE Done(rec, AlreadyUsed(rec.view))

\* pop swallowing the failure and returning False: the mutant of OnPopRaise
OnPopRaiseAsAbsent(rec) == OnPopReturn([rec EXCEPT !.pc = "popped", !.ret = FALSE])

\* The caller of pop once pop raised: pop catches redis.ResponseError only and
\* the views catch nothing, so the request ends in the framework's 500.
OnPopRaise(rec) ==
    IF rec.view = "raw" THEN rec ELSE Done(rec, ServerError)

-----------------------------------------------------------------------------
\* RedisTokenStore

\* the key without the token type: the mutant of _key
_key_untyped(token_type, jti) == "jwt:" \o jti

_key(token_type, jti) == "jwt:" \o token_type \o ":" \o jti

KeyOf(pair) == _key(pair[1], pair[2])

\* rounding up instead of truncating: the mutant of IntSeconds
IntSecondsCeil(ms) == IF ms > 0 THEN (ms + 999) \div 1000 ELSE -((-ms) \div 1000)

\* int(ttl.total_seconds()): truncation towards zero of a millisecond count
IntSeconds(ms) == IF ms >= 0 THEN ms \div 1000 ELSE -((-ms) \div 1000)

\* None, the reply for a missing key
Nil == "nil"

\* SET key value EX ex without NX: the mutant of RedisSetNxEx
RedisSetEx(db, k, v, ex) == Put(db, k, [val |-> v, ttl |-> ex])

\* SET key value NX EX ex, for ex >= 1
RedisSetNxEx(db, k, v, ex) ==
    IF k \in DOMAIN db THEN db ELSE Put(db, k, [val |-> v, ttl |-> ex])

RedisGet(db, k) == IF k \in DOMAIN db THEN db[k].val ELSE Nil

\* DEL that deletes nothing: the mutant of RedisDel
RedisDelNothing(db, k) == db

RedisDel(db, k) == Drop(db, k)

RedisExists(db, k) == IF k \in DOMAIN db THEN 1 ELSE 0

\* The keyspace after store(token_type, jti, ttl) reached the server: Redis
\* rejects EX <= 0 ("invalid expire time") and the command changes nothing.
StoreDb(db, token_type, jti, ttl) ==
    IF IntSeconds(ttl) >= 1
    THEN RedisSetNxEx(db, _key(token_type, jti), "1", IntSeconds(ttl))
    ELSE db

\* store() raises: redis.ResponseError for EX <= 0, ConnectionError, TimeoutError
StoreRaises(ttl, net) == net # "ok" \/ IntSeconds(ttl) < 1

\* The history of one store() call that reached the server.
StoreHistory(token_type, jti, ttl, db) ==
    LET pair == <<token_type, jti>>
        absent == _key(token_type, jti) \notin DOMAIN redis
        fresh == absent /\ _key(token_type, jti) \in DOMAIN db
    IN  /\ created' = IF fresh THEN Inc(created, pair) ELSE created
        /\ stored' = IF absent
                     THEN Put(stored, pair, [positive |-> ttl > 0,
                                             whole |-> ttl >= 1000])
                     ELSE stored
        /\ log' = IF absent THEN Put(log, pair, [pops |-> << >>, seen |-> {}])
                  ELSE log
        /\ restored' = IF absent THEN restored ELSE restored \cup {pair}

\* One call of store(): a single SET, so a single step.
store(token_type, jti, ttl, net) ==
    IF net = "conn_error"
    THEN UNCHANGED <<redis, created, stored, log, restored>>
    ELSE LET db == StoreDb(redis, token_type, jti, ttl)
         IN  /\ redis' = db
             /\ StoreHistory(token_type, jti, ttl, db)

\* log: the results of the pops since the store() call, in the order the server
\* ran them, and the results exists() gave after the first of them
LoggedPop(pair, res) ==
    IF pair \in DOMAIN log
    THEN Put(log, pair, [log[pair] EXCEPT !.pops = Append(@, res)])
    ELSE log

LoggedExists(pair, res) ==
    IF pair \in DOMAIN log /\ log[pair].pops # << >>
    THEN Put(log, pair, [log[pair] EXCEPT !.seen = @ \cup {res}])
    ELSE log

\* Why a pop of the pair finds, or does not find, a record.
CauseOf(pair, k) ==
    IF k \in DOMAIN redis THEN "live"
    ELSE IF Cnt(won, pair) > 0 THEN "redeemed"
    ELSE IF Cnt(lost, pair) > 0 THEN "consumed"
    ELSE IF Cnt(evictedK, k) > 0 THEN "evicted"
    ELSE "never"

\* The read-and-delete both paths of pop() have the server run as one step.
PopServer(p, how, replied) ==
    LET pair == procs[p].arg
        k == _key(pair[1], pair[2])
        v == RedisGet(redis, k)
        raw == procs[p].view = "raw"
    IN  /\ redis' = RedisDel(redis, k)
        /\ won' = IF replied /\ v # Nil THEN Inc(won, pair) ELSE won
        /\ lost' = IF ~replied /\ v # Nil THEN Inc(lost, pair) ELSE lost
        /\ log' = IF replied /\ raw THEN LoggedPop(pair, v # Nil) ELSE log
        /\ Respond(p,
               IF replied
               THEN OnPopReturn([procs[p] EXCEPT
                        !.pc = "popped", !.ret = v # Nil,
                        !.path = IF raw THEN how ELSE "",
                        !.cause = IF raw THEN "" ELSE CauseOf(pair, k),
                        !.replay404 = pair \in nf404])
               ELSE OnPopRaise([procs[p] EXCEPT !.pc = "raised", !.fault = TRUE]))
        /\ seenCauses' = IF replied /\ v = Nil /\ ~raw
                         THEN seenCauses \cup {CauseOf(pair, k)}
                         ELSE seenCauses

\* GETDEL replaced by a GET and a later DEL: the mutant of PopGetdel
PopGetThenDelete(p) ==
    /\ procs[p].pc \in {"getdel", "getdel_del"}
    /\ LET pair == procs[p].arg
           k == _key(pair[1], pair[2])
       IN  IF procs[p].pc = "getdel"
           THEN /\ Respond(p,
                       [procs[p] EXCEPT !.pc = "getdel_del",
                                 !.ret = RedisGet(redis, k) # Nil])
                /\ UNCHANGED <<redis, won, log>>
           ELSE /\ redis' = RedisDel(redis, k)
                /\ won' = IF procs[p].ret THEN Inc(won, pair) ELSE won
                /\ log' = LoggedPop(pair, procs[p].ret)
                /\ Respond(p,
                       OnPopReturn([procs[p] EXCEPT !.pc = "popped", !.path = "getdel"]))
    /\ UNCHANGED <<now, users, minted, mint, created, lost, evictedK,
                   stored, restored, nstores, nreqs, seenCauses, nf404, acts,
                   subject, webVars, peeks>>

\* pop(), lines 36-38: GETDEL answers, fails (the exception leaves pop), or is
\* refused with redis.ResponseError, and the fallback follows.
PopGetdel(p) ==
    /\ procs[p].pc = "getdel"
    /\ \/ PopServer(p, "getdel", TRUE)
       \/ PopServer(p, "getdel", FALSE)
       \/ /\ Respond(p,
                  OnPopRaise([procs[p] EXCEPT !.pc = "raised", !.fault = TRUE]))
          /\ UNCHANGED <<redis, won, lost, log, seenCauses>>
       \/ /\ Respond(p, [procs[p] EXCEPT !.pc = "pipeline"])
          /\ UNCHANGED <<redis, won, lost, log, seenCauses>>
    /\ UNCHANGED <<now, users, minted, mint, created, evictedK, stored,
                   restored, nstores, nreqs, nf404, acts, subject, webVars, peeks>>

\* GET then DEL in two round trips: the mutant of PopPipeline
PopPipelineTwoSteps(p) ==
    /\ procs[p].pc \in {"pipeline", "pipeline_del"}
    /\ LET pair == procs[p].arg
           k == _key(pair[1], pair[2])
       IN  IF procs[p].pc = "pipeline"
           THEN /\ Respond(p,
                       [procs[p] EXCEPT !.pc = "pipeline_del",
                                 !.ret = RedisGet(redis, k) # Nil])
                /\ UNCHANGED <<redis, won, log>>
           ELSE /\ redis' = RedisDel(redis, k)
                /\ won' = IF procs[p].ret THEN Inc(won, pair) ELSE won
                /\ log' = LoggedPop(pair, procs[p].ret)
                /\ Respond(p,
                       OnPopReturn([procs[p] EXCEPT !.pc = "popped", !.path = "pipeline"]))
    /\ UNCHANGED <<now, users, minted, mint, created, lost, evictedK,
                   stored, restored, nstores, nreqs, seenCauses, nf404, acts,
                   subject, webVars, peeks>>

\* pop(), lines 40-44: client.pipeline() is transactional (MULTI/EXEC), so
\* execute() has GET and DEL run as one step; it answers or fails.
PopPipeline(p) ==
    /\ procs[p].pc = "pipeline"
    /\ \/ PopServer(p, "pipeline", TRUE)
       \/ PopServer(p, "pipeline", FALSE)
       \/ /\ Respond(p,
                  OnPopRaise([procs[p] EXCEPT !.pc = "raised", !.fault = TRUE]))
          /\ UNCHANGED <<redis, won, lost, log, seenCauses>>
    /\ UNCHANGED <<now, users, minted, mint, created, evictedK, stored,
                   restored, nstores, nreqs, nf404, acts, subject, webVars, peeks>>

\* exists(), on a keyspace
exists(db, token_type, jti) == RedisExists(db, _key(token_type, jti)) = 1

-----------------------------------------------------------------------------
\* The passage of one second: every TTL drops by one, a record at 0 is evicted.

Expire(db) ==
    [k \in {x \in DOMAIN db : db[x].ttl > 1} |-> [db[k] EXCEPT !.ttl = @ - 1]]

Tick ==
    /\ now < MaxTime
    /\ now' = now + 1
    /\ redis' = Expire(redis)
    /\ evictedK' = [k \in DOMAIN evictedK \cup (DOMAIN redis \ DOMAIN Expire(redis)) |->
                       Cnt(evictedK, k)
                       + (IF k \in DOMAIN redis \ DOMAIN Expire(redis) THEN 1 ELSE 0)]
    /\ UNCHANGED <<procs, last, users, minted, mint, created, won, lost, stored,
                   restored, log, nstores, nreqs, seenCauses, nf404, acts, subject, webVars, peeks>>

-----------------------------------------------------------------------------
\* Direct use of the store, as by a test of RedisTokenStore.

CallStore(token_type, jti, ttl, net) ==
    /\ nstores < MaxStores
    /\ nstores' = nstores + 1
    /\ store(token_type, jti, ttl, net)
    /\ UNCHANGED <<now, procs, last, users, minted, mint, won, lost, evictedK,
                   nreqs, seenCauses, nf404, acts, subject, webVars, peeks>>

CallPop(p, token_type, jti) ==
    /\ NextFree(p)
    /\ Respond(p,
           [IdleProc EXCEPT !.pc = "getdel", !.view = "raw",
                            !.arg = <<token_type, jti>>])
    /\ UNCHANGED <<redis, now, users, minted, mint, created, won, lost,
                   evictedK, stored, restored, log, nstores, nreqs, seenCauses,
                   nf404, acts, subject, webVars, peeks>>

CallExists(token_type, jti) ==
    /\ log' = LoggedExists(<<token_type, jti>>, exists(redis, token_type, jti))
    /\ peeks' = IF exists(redis, token_type, jti)
                THEN peeks \cup {<<"exists", <<token_type, jti>>>>}
                ELSE peeks
    /\ UNCHANGED <<redis, now, procs, last, users, minted, mint, created, won,
                   lost, evictedK, stored, restored, nstores, nreqs, seenCauses,
                   nf404, acts, subject, webVars>>

-----------------------------------------------------------------------------
\* The minting endpoints: RegisterView, ResendVerificationEmailView,
\* PasswordResetRequestView. Each signs a token, calls store(), then enqueues
\* the email task.

MintIdle == [pc |-> "idle", view |-> "", token |-> NoToken]

CanMint == mint.pc = "idle" /\ Cardinality(minted) < MaxMint

Minting(view, tok) ==
    /\ minted' = minted \cup {tok}
    /\ mint' = [pc |-> "store", view |-> view, token |-> tok]

\* RegisterSerializer.create and perform_create lines 104-105
Register(u) ==
    /\ CanMint
    /\ users[u].state = "absent"
    /\ users' = [users EXCEPT ![u] =
           [state |-> "present", is_active |-> FALSE, password |-> "pw0"]]
    /\ Minting("register", for_user("email", u))
    /\ UNCHANGED <<redis, now, procs, last, created, won, lost, evictedK,
                   stored, restored, log, nstores, nreqs, seenCauses, nf404,
                   acts, subject, webVars, peeks>>

\* RegisterAdminSerializer.create and perform_create lines 167-169, with
\* settings.ENABLE_ADMIN_REGISTRATION on
RegisterAdmin(u) ==
    /\ CanMint
    /\ users[u].state = "absent"
    /\ users' = [users EXCEPT ![u] =
           [state |-> "present", is_active |-> FALSE, password |-> "pw0"]]
    /\ Minting("register_admin", for_user("email", u))
    /\ UNCHANGED <<redis, now, procs, last, created, won, lost, evictedK,
                   stored, restored, log, nstores, nreqs, seenCauses, nf404,
                   acts, subject, webVars, peeks>>

\* ResendVerificationEmailView.post lines 349-361: the two early returns
ResendRefused(u) ==
    /\ users[u].state # "present" \/ users[u].is_active
    /\ resent' = [user |-> u,
                  resp |-> IF users[u].state # "present"
                           THEN Resp(404, "User not found.")
                           ELSE Resp(400, "Email already verified.")]
    /\ UNCHANGED <<tokenVars, users, siteVars, workerVars, outbox>>

\* a resend without the test of is_active: the mutant of Resend
ResendToAnyone(u) ==
    /\ CanMint
    /\ users[u].state = "present"
    /\ Minting("resend", for_user("email", u))
    /\ UNCHANGED <<redis, now, procs, last, users, created, won, lost, evictedK,
                   stored, restored, log, nstores, nreqs, seenCauses, nf404,
                   acts, subject, webVars, peeks>>

\* ResendVerificationEmailView.post lines 349-363
Resend(u) ==
    /\ CanMint
    /\ users[u].state = "present"
    /\ ~users[u].is_active
    /\ Minting("resend", for_user("email", u))
    /\ UNCHANGED <<redis, now, procs, last, users, created, won, lost, evictedK,
                   stored, restored, log, nstores, nreqs, seenCauses, nf404,
                   acts, subject, webVars, peeks>>

\* PasswordResetRequestView.post lines 511-516
PasswordResetRequest(u) ==
    /\ CanMint
    /\ users[u].state = "present"
    /\ Minting("password_reset", for_user("password_reset", u))
    /\ UNCHANGED <<redis, now, procs, last, users, created, won, lost, evictedK,
                   stored, restored, log, nstores, nreqs, seenCauses, nf404,
                   acts, subject, webVars, peeks>>

\* a record kept twice as long as the token: the mutant of MintStore
MintStoreLong(net) ==
    /\ mint.pc = "store"
    /\ LET tok == mint.token
       IN  /\ store(tok.token_type, tok.jti, 2 * lifetime(tok.token_type), net)
           /\ mint' = IF StoreRaises(lifetime(tok.token_type), net)
                      THEN MintIdle
                      ELSE [mint EXCEPT !.pc = "email"]
    /\ UNCHANGED <<now, procs, last, users, minted, won, lost, evictedK,
                   nstores, nreqs, seenCauses, nf404, acts, subject, webVars, peeks>>

\* a failure of store() caught and ignored: a mutant of MintStore
MintStoreSwallows(net) ==
    /\ mint.pc = "store"
    /\ LET tok == mint.token
       IN  /\ store(tok.token_type, tok.jti, lifetime(tok.token_type), net)
           /\ mint' = [mint EXCEPT !.pc = "email"]
    /\ UNCHANGED <<now, procs, last, users, minted, won, lost, evictedK,
                   nstores, nreqs, seenCauses, nf404, acts, subject, webVars, peeks>>

\* redis_store.store(token_type=token["token_type"], jti=..., ttl=<class>.lifetime):
\* when it raises, the request ends there and no email is enqueued
MintStore(net) ==
    /\ mint.pc = "store"
    /\ LET tok == mint.token
       IN  /\ store(tok.token_type, tok.jti, lifetime(tok.token_type), net)
           /\ mint' = IF StoreRaises(lifetime(tok.token_type), net)
                      THEN MintIdle
                      ELSE [mint EXCEPT !.pc = "email"]
    /\ UNCHANGED <<now, procs, last, users, minted, won, lost, evictedK,
                   nstores, nreqs, seenCauses, nf404, acts, subject, webVars, peeks>>

\* the task a minting endpoint enqueues
TaskOf(view) ==
    IF view = "password_reset" THEN "send_password_reset_email"
    ELSE "send_verification_email"

\* a task message: the task, the token in the URL it carries, request.retries
\* and the seconds still to wait before a worker may take it
Message(task, tok, retries) ==
    [task |-> task, token |-> tok, retries |-> retries, countdown |-> 0]

\* send_verification_email.delay / send_password_reset_email.delay: the task
\* is handed to the queue and the request is over
\* (the queue is left out of the state here; Enqueue is the step with it)
MintEmail ==
    /\ mint.pc = "email"
    /\ mint' = MintIdle
    /\ UNCHANGED <<redis, now, procs, last, users, minted, created, won, lost, evictedK,
                   stored, restored, log, nstores, nreqs, seenCauses, nf404,
                   acts, subject, webVars, peeks>>

\* the 200 of ResendVerificationEmailView
VerificationResent == Resp(200, "Verification email resent.")

\* the same step with the queue: the message joins it, and the view answers
Enqueue ==
    /\ mint.pc = "email"
    /\ outbox' = outbox \cup {Message(TaskOf(mint.view), mint.token, 0)}
    /\ resent' = IF mint.view = "resend"
                 THEN [user |-> mint.token.user_id, resp |-> VerificationResent]
                 ELSE resent
    /\ mint' = MintIdle
    /\ UNCHANGED <<redis, now, procs, last, users, minted, created, won, lost, evictedK,
                   stored, restored, log, nstores, nreqs, seenCauses, nf404,
                   acts, subject, siteVars, workerVars, peeks>>

-----------------------------------------------------------------------------
\* The redemption endpoints: VerifyEmailView (GET, POST) as "verify",
\* PasswordResetConfirmView POST as "reset" and GET (dry run) as "reset_dry".

\* A token the endpoint is meant to take to the store: well signed, not past
\* its expiry, of the endpoint's type.
Good(view, tok) ==
    tok.sig = "ok" /\ NowMs < tok.exp /\ tok.token_type = TypeOf(view)

\* the dry run popping like a POST: the mutant of SkipsPop
SkipsPopNever(view) == FALSE

\* line 626, "if not dry_run and not redis_store.pop(...)": the dry run of the
\* reset view never calls the store
SkipsPop(view) == view = "reset_dry"

\* The request up to its first call of the store or the database.
Request(p, view, tok) ==
    /\ NextFree(p)
    /\ nreqs < MaxReqs
    /\ nreqs' = nreqs + 1
    /\ LET rec == [IdleProc EXCEPT !.view = view, !.token = tok,
                                   !.good = Good(view, tok)]
       IN  Respond(p,
               IF Check(view, tok) # NoResp THEN Done(rec, Check(view, tok))
               ELSE IF SkipsPop(view) THEN [rec EXCEPT !.pc = "lookup"]
               ELSE [rec EXCEPT !.pc = "getdel",
                                !.arg = <<TypeOf(view), tok.jti>>])
    /\ UNCHANGED <<redis, now, users, minted, mint, created, won, lost,
                   evictedK, stored, restored, log, nstores, seenCauses, nf404,
                   acts, subject, webVars, peeks>>

\* history: the pair a dry run is about to call valid, if its record is live
Peeked(rec, row) ==
    IF /\ rec.view = "reset_dry" /\ row.state = "present"
       /\ _key(TypeOf(rec.view), rec.token.jti) \in DOMAIN redis
    THEN {<<"dry_run", <<TypeOf(rec.view), rec.token.jti>>>>}
    ELSE {}

\* User.objects.get(user_id=user_id) and what follows it up to save()
Lookup(p) ==
    /\ procs[p].pc = "lookup"
    /\ LET rec == procs[p]
           row == users[rec.token.user_id]
       IN  IF row.state # "present"
           THEN /\ Respond(p, Done(rec, UserNotFound(rec.view)))
                /\ nf404' = IF rec.view = "reset_dry" THEN nf404
                            ELSE nf404 \cup {rec.arg}
           ELSE /\ Respond(p,
                       IF rec.view = "reset_dry" THEN Done(rec, TokenIsValid)
                       ELSE IF rec.view = "verify" /\ row.is_active
                       THEN Done(rec, AlreadyVerified)
                       ELSE [rec EXCEPT !.pc = "save",
                                        !.user = [found |-> TRUE,
                                                  is_active |-> row.is_active,
                                                  password |-> row.password]])
                /\ UNCHANGED nf404
    /\ peeks' = peeks \cup Peeked(procs[p], users[procs[p].token.user_id])
    /\ UNCHANGED <<redis, now, users, minted, mint, created, won, lost,
                   evictedK, stored, restored, log, nstores, nreqs, seenCauses,
                   acts, subject, webVars>>

\* The bound action: user.is_active = True, or user.set_password(new_password),
\* then user.save(), which writes every field of the instance that was read.
Save(p) ==
    /\ procs[p].pc = "save"
    /\ LET rec == procs[p]
       IN  /\ users' = [users EXCEPT ![rec.token.user_id] =
                   IF rec.view = "verify"
                   THEN [state |-> "present", is_active |-> TRUE,
                         password |-> rec.user.password]
                   ELSE [state |-> "present", is_active |-> rec.user.is_active,
                         password |-> "pw1"]]
           /\ acts' = Inc(acts, rec.arg)
           /\ Respond(p,
                   Done([rec EXCEPT !.acted = TRUE], Success(rec.view)))
    /\ UNCHANGED <<redis, now, minted, mint, created, won, lost, evictedK,
                   stored, restored, log, nstores, nreqs, seenCauses, nf404,
                   subject, webVars, peeks>>

\* the failed save putting the record back: the mutant of SaveFails
SaveFailsRestores(p) ==
    /\ procs[p].pc = "save"
    /\ Respond(p, Done(procs[p], ServerError))
    /\ redis' = Put(redis, KeyOf(procs[p].arg), [val |-> "1", ttl |-> 1])
    /\ UNCHANGED <<now, users, minted, mint, created, won, lost,
                   evictedK, stored, restored, log, nstores, nreqs, seenCauses,
                   nf404, acts, subject, webVars, peeks>>

\* user.save() raises (the database is down): nothing is written
SaveFails(p) ==
    /\ procs[p].pc = "save"
    /\ Respond(p, Done(procs[p], ServerError))
    /\ UNCHANGED <<redis, now, users, minted, mint, created, won, lost,
                   evictedK, stored, restored, log, nstores, nreqs, seenCauses,
                   nf404, acts, subject, webVars, peeks>>

\* A user is deleted in the admin site (UserAdmin).
DeleteUser(u) ==
    /\ users[u].state = "present"
    /\ users' = [users EXCEPT ![u].state = "deleted"]
    /\ UNCHANGED <<redis, now, procs, last, minted, mint, created, won, lost,
                   evictedK, stored, restored, log, nstores, nreqs, seenCauses,
                   nf404, acts, subject, webVars, peeks>>

-----------------------------------------------------------------------------

\* The rest of the API at start: nobody has logged in.
NoLogin == [user |-> "", correct |-> FALSE, active |-> FALSE, resp |-> NoResp]

InitLogin ==
    /\ login = NoLogin
    /\ jwts = {}
    /\ nlogins = 0

InitMw ==
    /\ BlockedIP = {}
    /\ RequestLog = << >>
    /\ geoCache = << >>
    /\ mwReqs = << >>

InitGeo ==
    /\ geoCalls = << >>
    /\ geoClock = 0

InitAccount ==
    /\ accReqs = << >>

NoImgReq ==
    [pc |-> "done", action |-> "", id |-> "", resp |-> NoResp,
     data |-> [product |-> "", is_primary |-> ""],
     instance |-> [product |-> "", is_primary |-> FALSE]]

InitImages ==
    /\ images = << >>
    /\ imgReqs = << >>
    /\ imgLast = NoImgReq

AnonymousUser == [is_authenticated |-> FALSE, is_staff |-> FALSE]
NoApiReq ==
    [method |-> "", user |-> AnonymousUser, model |-> "", id |-> 0,
     resp |-> NoResp]

InitCatalog ==
    /\ catalog = << >>
    /\ changes = {}
    /\ apiLast = NoApiReq
    /\ napi = 0

InitReviews ==
    /\ reviews = << >>
    /\ revReqs = << >>

InitQueue ==
    /\ outbox = {}
    /\ resent = [user |-> "", resp |-> NoResp]

InitWorker ==
    /\ runs = << >>
    /\ ndelays = 0

InitWeb ==
    /\ InitLogin /\ InitMw /\ InitGeo /\ InitAccount /\ InitImages /\ InitCatalog /\ InitReviews
    /\ InitQueue /\ InitWorker

InitBut(types) ==
    /\ InitWeb
    /\ subject \in types
    /\ redis = << >>
    /\ now = 0
    /\ procs = [p \in Procs |-> IdleProc]
    /\ last = IdleProc
    /\ users = [u \in Uids |->
                   [state |-> "absent", is_active |-> FALSE, password |-> ""]]
    /\ minted = {}
    /\ mint = MintIdle
    /\ created = << >>
    /\ won = << >>
    /\ lost = << >>
    /\ evictedK = << >>
    /\ stored = << >>
    /\ restored = {}
    /\ log = << >>
    /\ nstores = 0
    /\ nreqs = 0
    /\ seenCauses = {}
    /\ nf404 = {}
    /\ acts = << >>
    /\ peeks = {}

\* The API: an empty store, no user.
Init == InitBut({"email"})

Next ==
    \/ \E u \in Uids : Register(u)
    \/ \E u \in Uids : Resend(u)
    \/ \E u \in Uids : PasswordResetRequest(u)
    \/ \E net \in NetOutcomes : MintStore(net)
    \/ MintEmail
    \/ \E p \in Procs, view \in Views, tok \in Presentable : Request(p, view, tok)
    \/ \E p \in Procs : PopGetdel(p)
    \/ \E p \in Procs : PopPipeline(p)
    \/ \E p \in Procs : Lookup(p)
    \/ \E p \in Procs : Save(p)
    \/ \E p \in Procs : SaveFails(p)
    \/ \E u \in Uids : DeleteUser(u)
    \/ Tick

Spec == Init /\ [][Next]_vars

\* The store driven directly, on one identifier of either token type.
InitStore == InitBut(TokenTypes)

NextStore ==
    \/ \E j \in RawJtis, ttl \in TtlChoices, net \in NetOutcomes :
           CallStore(subject, j, ttl, net)
    \/ \E p \in Procs, j \in RawJtis : CallPop(p, subject, j)
    \/ \E p \in Procs : PopGetdel(p)
    \/ \E p \in Procs : PopPipeline(p)
    \/ \E j \in RawJtis : CallExists(subject, j)
    \/ Tick

SpecStore == InitStore /\ [][NextStore]_vars

-----
\* Properties of the store driven directly.


\* the pair got one record, which no TTL evicted and no lost reply consumed
OneCleanRecord(pair) ==
    /\ Cnt(created, pair) = 1
    /\ Cnt(evictedK, KeyOf(pair)) = 0
    /\ Cnt(lost, pair) = 0

Returned(pair) == {p \in Procs : procs[p].pc = "popped" /\ procs[p].arg = pair}
Winners(pair) == {p \in Returned(pair) : procs[p].ret}

\* C1: of the concurrent pop calls on one registered, unexpired identifier,
\* whatever the interleaving, exactly one returns True and the others False.
C1_ExactlyOnePopWins ==
    \A pair \in DOMAIN log :
        OneCleanRecord(pair) =>
            /\ Cardinality(Winners(pair)) <= 1
            /\ Len(log[pair].pops) >= 2 =>
                   /\ Cardinality(Winners(pair)) = 1
                   /\ Cardinality(Returned(pair) \ Winners(pair))
                          >= Len(log[pair].pops) - 1

\* three calls on one record have returned: one True, two False
C1_Witness ==
    \E pair \in DOMAIN log :
        /\ OneCleanRecord(pair)
        /\ Len(log[pair].pops) = 3
        /\ Cardinality(Winners(pair)) = 1
        /\ Cardinality(Returned(pair)) = 3

\* the pops and exists calls that followed a store() call on an absent key:
\* the first pop True, every later pop False, every later exists False, and
\* the record absent
FirstPopOnly(pair) ==
    log[pair].pops # << >> =>
        /\ log[pair].pops[1]
        /\ \A i \in 2..Len(log[pair].pops) : ~log[pair].pops[i]
        /\ TRUE \notin log[pair].seen
        /\ KeyOf(pair) \notin DOMAIN redis

Undisturbed(pair) == Cnt(evictedK, KeyOf(pair)) = 0 /\ Cnt(lost, pair) = 0

\* C2, as stated: after store() with ttl > 0 on an absent key the first pop
\* returns True, later pops and exists return False.
C2_AnyPositiveTtl ==
    \A pair \in DOMAIN log :
        (stored[pair].positive /\ Undisturbed(pair)) => FirstPopOnly(pair)

\* C2, amended: after store() with a ttl of at least one whole second
\* (int(ttl.total_seconds()) >= 1) on an absent key, the first pop returns
\* True, the record is then absent, and every later pop and exists returns
\* False, for both token types.
C2_WholeSecondTtl ==
    \A pair \in DOMAIN log :
        (stored[pair].whole /\ Undisturbed(pair)) => FirstPopOnly(pair)

C2_Witness ==
    \E pair \in DOMAIN log :
        /\ pair[1] = "password_reset"
        /\ stored[pair].whole /\ Undisturbed(pair)
        /\ Len(log[pair].pops) >= 2
        /\ log[pair].pops[1]
        /\ log[pair].seen = {FALSE}

\* C3: pops that took the fallback pipeline run GET and DEL as one unit: of two
\* pops on one record, one of them at least through the fallback, at most one
\* returns True.
C3_FallbackIsAtomic ==
    \A pair \in DOMAIN log :
        \A p, q \in Returned(pair) :
            (/\ p # q
             /\ Cnt(created, pair) <= 1
             /\ "pipeline" \in {procs[p].path, procs[q].path})
            => ~(procs[p].ret /\ procs[q].ret)

\* a fallback pop won against a fallback pop and a GETDEL pop
C3_Witness ==
    \E pair \in DOMAIN log :
        \E p, q, r \in Returned(pair) :
            /\ OneCleanRecord(pair)
            /\ procs[p].path = "pipeline" /\ procs[p].ret
            /\ procs[q].path = "pipeline" /\ ~procs[q].ret
            /\ procs[r].path = "getdel" /\ ~procs[r].ret

\* C7: store() on a key that holds a live record changes nothing: the value and
\* the remaining expiry stay, and no further record is created.
C7_StoreKeepsLiveRecord ==
    [][\A j \in RawJtis, ttl \in TtlChoices, net \in NetOutcomes :
          (CallStore(subject, j, ttl, net) /\ _key(subject, j) \in DOMAIN redis)
          => (redis' = redis /\ created' = created)]_vars

\* a store() call met a live record, which is still live
C7_Witness ==
    \E pair \in restored :
        /\ KeyOf(pair) \in DOMAIN redis
        /\ Cnt(created, pair) = 1
        /\ Cnt(won, pair) = 0

-----------------------------------------------------------------------------
\* Properties of the endpoints.

Answered == last.pc = "done"
InFlight(p) == procs[p].pc # "idle" /\ procs[p].view \in Views
Live(pair) == IF KeyOf(pair) \in DOMAIN redis THEN 1 ELSE 0

\* C4: over all interleavings of the redemption requests that carry a token,
\* the bound action (activate and save, set_password and save) runs at most
\* once for the token, and only in a request whose pop returned True.
C4_ActionOnlyByTheWinner ==
    /\ \A pair \in DOMAIN acts : acts[pair] <= 1 /\ acts[pair] <= Cnt(won, pair)
    /\ \A p \in Procs : procs[p].pc = "save" => procs[p].ret
    /\ (Answered /\ last.acted) => last.ret

\* two requests carried the token: one acted, the other was turned away
C4_Witness ==
    \E pair \in DOMAIN acts :
        /\ acts[pair] = 1
        /\ Answered /\ last.arg = pair /\ ~last.ret /\ ~last.acted
        /\ last.resp = AlreadyUsed(last.view)

\* C5: a request whose token has a bad signature, is malformed, is past its
\* expiry or has the token_type of the other endpoint is answered HTTP 400 in
\* the step that decodes it: that step neither reads nor changes the store
\* (no pop is begun), changes no user, and leaves no request in flight. Only
\* a request whose token passed the checks goes on.
C5_RejectedBeforeTheStore ==
    [][nreqs' # nreqs =>
           /\ redis' = redis /\ users' = users /\ acts' = acts
           /\ \/ \E p \in Procs :
                     /\ procs[p].pc = "idle" /\ procs'[p].pc # "idle"
                     /\ procs'[p].good /\ last' = last
              \/ /\ procs' = procs
                 /\ ~last'.good
                 /\ last'.resp.status = 400
                 /\ last'.arg = NoArg]_vars

\* a well-signed token of the right type, past its expiry, was turned away
\* while its record was still in the store
C5_Witness ==
    /\ Answered /\ ~last.good
    /\ last.token.sig = "ok"
    /\ last.token.token_type = TypeOf(last.view)
    /\ _key(last.token.token_type, last.token.jti) \in DOMAIN redis
    /\ last.resp = InvalidOrExpired(last.view)

\* C6: when the Redis call of pop fails (unreachable, timed out), pop returns
\* nothing: the request is answered with the server error, which is none of
\* the token rejections, and the bound action is not run.
C6_StoreFailureIsItsOwnOutcome ==
    /\ (Answered /\ last.fault)
       => /\ last.resp = ServerError
          /\ last.resp \notin {AlreadyUsed(last.view), InvalidOrExpired(last.view),
                               InvalidTokenType(last.view), UserNotFound(last.view)}
          /\ last.cause = ""
          /\ ~last.acted
    /\ \A p \in Procs : InFlight(p) => ~procs[p].fault

\* a pop whose reply was lost: the record is gone, the request got the error
C6_Witness ==
    /\ Answered /\ last.fault
    /\ Cnt(lost, last.arg) = 1
    /\ Cnt(acts, last.arg) = 0

\* C8: a token of the other endpoint's type never gets past the checks, and a
\* pair (token_type, jti) has a record of its own: every record created for
\* the pair is live, was consumed by a pop of the pair, or was evicted, so the
\* calls on another type with the same jti do not create, consume or show it.
C8_TypesAreIsolated ==
    /\ \A p \in Procs : InFlight(p) =>
           /\ procs[p].token.token_type = TypeOf(procs[p].view)
           /\ procs[p].arg \in {NoArg, <<TypeOf(procs[p].view), procs[p].token.jti>>}
    /\ (Answered /\ last.token.token_type # TypeOf(last.view))
       => (last.resp.status = 400 /\ last.arg = NoArg /\ ~last.acted)
    /\ \A pair \in DOMAIN created \cup DOMAIN won \cup DOMAIN lost :
           Live(pair) + Cnt(won, pair) + Cnt(lost, pair) + Cnt(evictedK, KeyOf(pair))
               = Cnt(created, pair)

\* the email token with some jti was redeemed and the password-reset record
\* with the same jti is still there; an email token shown to the reset
\* endpoint was turned away
C8_Witness ==
    \E j \in {pair[2] : pair \in DOMAIN won} :
        /\ Cnt(won, <<"email", j>>) = 1
        /\ _key("password_reset", j) \in DOMAIN redis
        /\ Answered /\ last.view = "reset" /\ last.token.sig = "ok"
        /\ last.token.token_type = "email"
        /\ last.resp = InvalidTokenType("reset")

\* C9: when pop returns False for a token that passed the checks, the answer
\* is HTTP 400 'Token already used or not found.', whatever the reason the
\* record is missing.
C9_SameAnswerWhateverTheCause ==
    (Answered /\ last.good /\ last.cause # "" /\ ~last.ret)
    => /\ last.resp = Resp(400, "Token already used or not found.")
       /\ last.cause \in {"redeemed", "consumed", "evicted", "never"}

\* a replayed token and a token missing for another reason were both answered
C9_Witness ==
    /\ Answered /\ last.good /\ ~last.ret
    /\ last.cause \in {"evicted", "never"}
    /\ "redeemed" \in seenCauses
    /\ last.resp = AlreadyUsed(last.view)

\* C10: the request whose pop returned True and that found no user is answered
\* 404 'User not found' and runs no bound action; the pair stays consumed, and
\* a later pop of it returns False, answered 'Token already used or not found.'.
C10_MissingUserKeepsTokenConsumed ==
    /\ (Answered /\ last.ret /\ last.arg \in nf404)
       => (last.resp = UserNotFound(last.view) /\ last.resp.status = 404 /\ ~last.acted)
    /\ \A pair \in nf404 :
           KeyOf(pair) \notin DOMAIN redis /\ Cnt(acts, pair) = 0 /\ Cnt(won, pair) = 1
    /\ (Answered /\ last.replay404 /\ ~last.fault)
       => (~last.ret /\ last.resp = AlreadyUsed(last.view))

\* the token of a deleted user was replayed
C10_Witness ==
    /\ Answered /\ last.replay404 /\ last.arg \in nf404
    /\ last.resp = Resp(400, "Token already used or not found.")

-----------------------------------------------------------------------------
\* The password-reset link: requested, checked (exists, dry-run GET), confirmed.

InitDry == InitBut({"password_reset"})

NextDry ==
    \/ \E u \in Uids : Register(u)
    \/ \E u \in Uids : PasswordResetRequest(u)
    \/ \E net \in NetOutcomes : MintStore(net)
    \/ MintEmail
    \/ \E p \in Procs, view \in {"reset", "reset_dry"}, tok \in Presentable :
           Request(p, view, tok)
    \/ \E p \in Procs : PopGetdel(p)
    \/ \E p \in Procs : PopPipeline(p)
    \/ \E p \in Procs : Lookup(p)
    \/ \E p \in Procs : Save(p)
    \/ \E p \in Procs : SaveFails(p)
    \/ \E tok \in minted : CallExists(tok.token_type, tok.jti)
    \/ \E u \in Uids : DeleteUser(u)
    \/ Tick

SpecDry == InitDry /\ [][NextDry]_vars

\* a step of a dry-run request
DryStep ==
    \/ \E p \in Procs :
           procs'[p] # procs[p] /\ "reset_dry" \in {procs[p].view, procs'[p].view}
    \/ nreqs' # nreqs /\ procs' = procs /\ last'.view = "reset_dry"

\* a call of exists() on a minted token
ExistsStep == \E tok \in minted : CallExists(tok.token_type, tok.jti)

\* the pop of worker p ends in this step
PopEnds(p) ==
    /\ procs[p].pc \in {"getdel", "pipeline"}
    /\ procs'[p].pc \notin {"getdel", "pipeline"}

\* C11: exists() calls and password-reset dry runs delete no record and change
\* no password, however many there are; the pop of a following POST on a token
\* that was checked and whose record is still there returns True (unless the
\* Redis call fails), so the POST goes on to the user.
C11_ChecksConsumeNothing ==
    [][/\ (DryStep \/ ExistsStep)
          => /\ redis' = redis /\ users' = users
             /\ won' = won /\ lost' = lost /\ acts' = acts
       /\ \A p \in Procs :
              (/\ PopEnds(p)
               /\ \E how \in {"exists", "dry_run"} : <<how, procs[p].arg>> \in peeks
               /\ KeyOf(procs[p].arg) \in DOMAIN redis)
              => \/ procs'[p].pc = "lookup" /\ procs'[p].ret
                 \/ last'.fault /\ last'.arg = procs[p].arg]_vars

\* a token was checked by exists() and by a dry run, then a POST set the new
\* password, and a second POST with the token was rejected as already used
C11_Witness ==
    \E pair \in DOMAIN acts :
        /\ <<"exists", pair>> \in peeks /\ <<"dry_run", pair>> \in peeks
        /\ acts[pair] = 1
        /\ \E u \in Uids : users[u].password = "pw1"
        /\ Answered /\ last.view = "reset" /\ last.arg = pair
        /\ ~last.ret /\ last.cause = "redeemed"
        /\ last.resp = AlreadyUsed("reset")

\* C12, as stated, for a token that a POST has redeemed: the dry run answers
\* 'Token is valid.' only while the record of the token is in the store, so
\* not for this token.
C12_DryRunValidOnlyWhileRegistered ==
    [][\A p \in Procs :
          (/\ procs[p].view = "reset_dry" /\ procs[p].pc = "lookup"
           /\ procs'[p].pc = "idle"
           /\ last'.resp = TokenIsValid
           /\ Cnt(won, <<"password_reset", procs[p].token.jti>>) >= 1)
          => _key("password_reset", procs[p].token.jti) \in DOMAIN redis]_vars

-----------------------------------------------------------------------------
\* Failure after redemption.

\* the workers that hold the True of a pop of the pair and have not answered
Holders(pair) ==
    {p \in Procs : /\ procs[p].arg = pair /\ procs[p].ret
                   /\ procs[p].pc \in {"lookup", "save"}}

\* the pair was consumed by a request that is over and ran no bound action
Spent(pair) ==
    Cnt(won, pair) >= 1 /\ Cnt(acts, pair) = 0 /\ Holders(pair) = {}

\* C13: once the request whose pop returned True is over without the bound
\* action (save() raised, the user was missing), the record is not back in the
\* store, and it stays so: no later request with the token holds a True pop
\* or runs the action.
C13_RedemptionIsIrreversible ==
    /\ [](\A pair \in DOMAIN won : Spent(pair) => KeyOf(pair) \notin DOMAIN redis)
    /\ [][\A pair \in DOMAIN won : Spent(pair) => Spent(pair)']_vars

\* save() raised in the request that consumed a password-reset token; the
\* token was sent again and rejected, and the password is the old one
C13_Witness ==
    \E pair \in DOMAIN won :
        /\ Spent(pair) /\ pair \notin nf404
        /\ Answered /\ last.view = "reset" /\ last.arg = pair
        /\ ~last.ret /\ last.cause = "redeemed"
        /\ last.resp = AlreadyUsed("reset")
        /\ users[last.token.user_id].state = "present"
        /\ users[last.token.user_id].password = "pw0"

-----------------------------------------------------------------------------
\* Expiry at registration.

\* C14: after store() on an absent key with a ttl of less than one whole
\* second (negative, zero, or a positive fraction that int() truncates to 0),
\* there is no record: every pop of the pair returns False and exists is
\* False, until a store() call with a longer ttl.
C14_SubSecondTtlNeverRedeemable ==
    \A pair \in DOMAIN log :
        ~stored[pair].whole
        => /\ \A i \in 1..Len(log[pair].pops) : ~log[pair].pops[i]
           /\ KeyOf(pair) \notin DOMAIN redis

\* store() with a ttl of half a second, then two pops, both False
C14_Witness ==
    \E pair \in DOMAIN log :
        /\ stored[pair].positive /\ ~stored[pair].whole
        /\ Len(log[pair].pops) >= 2
        /\ ~log[pair].pops[1] /\ ~log[pair].pops[2]
        /\ Cnt(created, pair) = 0

-----------------------------------------------------------------------------
\* The rejection reasons and their responses.

\* the reason a token is turned away before the store is called: a signature
\* that does not verify, a malformed string or another type's token is
\* invalid_token; a well-signed token of the right type past its exp is
\* expired_token
CheckReason(view, tok) ==
    IF tok.sig # "ok" \/ tok.token_type # TypeOf(view) THEN "invalid_token"
    ELSE IF tok.exp <= NowMs THEN "expired_token"
    ELSE "none"

\* the reason of an answered request, from the path it took
ReasonOf(rec) ==
    IF rec.token.sig # "ok" \/ rec.token.token_type # TypeOf(rec.view)
    THEN "invalid_token"
    ELSE IF ~rec.good THEN "expired_token"
    ELSE IF rec.fault THEN "store_unavailable"
    ELSE IF rec.arg # NoArg /\ ~rec.ret THEN "already_used_or_unknown"
    ELSE IF rec.resp = UserNotFound(rec.view) THEN "subject_not_found"
    ELSE "none"

TokenStateReasons ==
    {"invalid_token", "expired_token", "already_used_or_unknown",
     "subject_not_found"}

\* C15: no two of the four rejection reasons share a response: the answer a
\* request was given for one reason is never the answer the same endpoint
\* gives, for another reason, to a token it turns away
C15_EachReasonItsOwnResponse ==
    \A tok \in Presentable :
        ( /\ last.pc = "done" /\ last.view \in Views
          /\ ReasonOf(last) \in TokenStateReasons
          /\ CheckReason(last.view, tok) \in TokenStateReasons
          /\ CheckReason(last.view, tok) # ReasonOf(last) )
        => Check(last.view, tok) # last.resp

-----------------------------------------------------------------------------
\* The record's time to live and the token's expiry.

PairOf(tok) == <<tok.token_type, tok.jti>>
\* store() created the token's record
Registered(tok) == Cnt(created, PairOf(tok)) >= 1
\* no pop has deleted the token's record
Unredeemed(tok) == Cnt(won, PairOf(tok)) = 0 /\ Cnt(lost, PairOf(tok)) = 0
\* the part of a second int() drops from the type's lifetime
Fraction(token_type) == lifetime(token_type) % 1000

\* C16, as stated: exp = iat + lifetime, an unredeemed token has its record at
\* any time before its exp, and no record is there once its token has expired
C16_RecordLivesAsLongAsToken ==
    \A tok \in minted :
        /\ tok.exp = tok.iat + lifetime(tok.token_type)
        /\ (Registered(tok) /\ Unredeemed(tok) /\ NowMs < tok.exp)
               => KeyOf(PairOf(tok)) \in DOMAIN redis
        /\ KeyOf(PairOf(tok)) \in DOMAIN redis => NowMs < tok.exp

\* C16, amended: exp = iat + lifetime; the record is created with a time to
\* live of int(lifetime in seconds), counted from the store() call; an
\* unredeemed token has its record until its exp less the fraction of a second
\* that int() dropped. (The record may be there after exp.)
C16_RecordTtlIsWholeLifetimeFromStore ==
    /\ [](\A tok \in minted :
            /\ tok.exp = tok.iat + lifetime(tok.token_type)
            /\ (Registered(tok) /\ Unredeemed(tok)
                   /\ NowMs + Fraction(tok.token_type) < tok.exp)
                  => KeyOf(PairOf(tok)) \in DOMAIN redis)
    /\ [][\A tok \in minted :
            Cnt(created', PairOf(tok)) > Cnt(created, PairOf(tok))
            => /\ KeyOf(PairOf(tok)) \in DOMAIN redis'
               /\ redis'[KeyOf(PairOf(tok))].ttl
                      = IntSeconds(lifetime(tok.token_type))]_vars

\* a reset token signed in one second and registered in the next: at its exp
\* the record is still there, and the endpoint turned the token away as
\* expired without a call of the store
C16_Witness ==
    \E tok \in minted :
        /\ Registered(tok) /\ Unredeemed(tok)
        /\ tok.exp <= NowMs
        /\ KeyOf(PairOf(tok)) \in DOMAIN redis
        /\ last.pc = "done" /\ last.token = tok /\ last.view = "reset"
        /\ last.resp = InvalidOrExpired("reset") /\ last.arg = NoArg

-----------------------------------------------------------------------------
\* Login: auth/login/ is served by the class the name CustomTokenObtainPairView
\* is bound to when catalogue/urls.py imports it from catalogue/views.py.

\* the class statements of views.py under that name, in the order of the file;
\* the second has no serializer_class of its own and inherits simplejwt's
ViewClasses ==
    << [name |-> "CustomTokenObtainPairView",
        serializer_class |-> "CustomTokenObtainPairSerializer"],
       [name |-> "CustomTokenObtainPairView",
        serializer_class |-> "TokenObtainPairSerializer"] >>

\* a module attribute is what the last statement that bound the name made it
Imported(name) ==
    LET at == {i \in DOMAIN ViewClasses : ViewClasses[i].name = name}
    IN  ViewClasses[CHOOSE i \in at : \A j \in at : j <= i]

LoginResp(status, detail, unverified, resend_endpoint, tokens) ==
    [status |-> status, detail |-> detail, unverified |-> unverified,
     resend_endpoint |-> resend_endpoint, tokens |-> tokens]

InvalidEmailOrPassword ==
    LoginResp(400, "Invalid email or password.", FALSE, "", FALSE)
AccountNotVerified ==
    LoginResp(400,
        "Account not verified. Please check your email for the verification linkor request a new one.",
        TRUE, "/api/auth/resend-verification/", FALSE)
NoActiveAccount ==
    LoginResp(401, "No active account found with the given credentials",
              FALSE, "", FALSE)
TokenPair == LoginResp(200, "", FALSE, "", TRUE)

PasswordChoices == {"pw0", "wrong"}

\* simplejwt's TokenObtainPairSerializer.validate: authenticate() gives no user
\* for an unknown email, a wrong password or an inactive user, and the
\* serializer raises AuthenticationFailed; else the pair of tokens
DefaultValidate(row, password) ==
    IF row.state = "present" /\ password = row.password /\ row.is_active
    THEN TokenPair
    ELSE NoActiveAccount

\* CustomTokenObtainPairSerializer.validate
CustomValidate(row, password) ==
    IF row.state # "present" THEN InvalidEmailOrPassword
    ELSE IF password # row.password THEN InvalidEmailOrPassword
    ELSE IF ~row.is_active THEN AccountNotVerified
    ELSE DefaultValidate(row, password)

validate(serializer_class, row, password) ==
    IF serializer_class = "CustomTokenObtainPairSerializer"
    THEN CustomValidate(row, password)
    ELSE DefaultValidate(row, password)

\* POST auth/login/
Login(u, password) ==
    /\ nlogins < MaxLogins
    /\ nlogins' = nlogins + 1
    /\ LET row == users[u]
           resp == validate(Imported("CustomTokenObtainPairView").serializer_class,
                            row, password)
       IN  /\ login' = [user |-> u,
                        correct |-> row.state = "present" /\ password = row.password,
                        active |-> row.is_active,
                        resp |-> resp]
           /\ jwts' = IF resp.tokens THEN jwts \cup {u} ELSE jwts
    /\ UNCHANGED <<tokenVars, users, queueVars, workerVars, reviewVars, geoVars, accountVars, mwVars, imageVars, catalogVars>>

\* Registration, email verification and login.
NextLogin ==
    \/ \E u \in Uids : Register(u)
    \/ \E net \in NetOutcomes : MintStore(net)
    \/ MintEmail
    \/ \E p \in Procs, tok \in minted : Request(p, "verify", tok)
    \/ \E p \in Procs : PopGetdel(p)
    \/ \E p \in Procs : Lookup(p)
    \/ \E p \in Procs : Save(p)
    \/ \E u \in Uids, password \in PasswordChoices : Login(u, password)

SpecLogin == Init /\ [][NextLogin]_vars

\* C17: a login with the correct email and password of a user who is not
\* active issues no token and is refused with 'Account not verified...',
\* unverified = True and a resend_endpoint
C17_UnverifiedLoginIsToldToVerify ==
    (login.correct /\ ~login.active)
    => /\ ~login.resp.tokens
       /\ login.resp = AccountNotVerified

-----------------------------------------------------------------------------
\* catalogue/middleware.py and the block_ip command

Ips == {"ip1", "ip2"}
Paths == {"/api/products/"}

\* HTTP_X_FORWARDED_FOR: no header, or the header's value as the list
\* split(",") makes of it (the empty string gives one empty entry)
NoHeader == << >>
XffChoices ==
    {NoHeader, <<"">>, <<"ip1">>, <<" ip2 ">>, <<"ip2", "ip1">>, <<"ip1", " ip2">>}

\* str.strip() on the entries above
strip(str) ==
    IF str \in {" ip2 ", " ip2"} THEN "ip2" ELSE str

\* the value of the header is falsy: the header is missing or empty
Falsy(xff) == xff = NoHeader \/ xff = <<"">>

\* REMOTE_ADDR whatever the header: the mutant of get_client_ip
get_client_ip_remote(xff, remote) == remote

get_client_ip(xff, remote) ==
    IF ~Falsy(xff) THEN strip(xff[1]) ELSE remote

\* block_ip: BlockedIP.objects.get_or_create(ip_address=ip)
BlockIp(ip) ==
    /\ ip \notin BlockedIP
    /\ BlockedIP' = BlockedIP \cup {ip}
    /\ UNCHANGED <<tokenVars, users, queueVars, workerVars, reviewVars, geoVars, accountVars, loginVars, catalogVars, imageVars, RequestLog, geoCache, mwReqs>>

AccessDenied == Resp(403, "Access denied")
\* whatever the view answers
ViewResponse == Resp(200, "view")

\* __call__ up to the blacklist test, lines 65-69
MwCall(xff, remote, path) ==
    /\ Len(mwReqs) < MaxMwReqs
    /\ LET ip == get_client_ip(xff, remote)
           rec == [xff |-> xff, remote |-> remote, path |-> path, ip |-> ip,
                   blocked |-> BlockedIP, pc |-> "geo", resp |-> NoResp,
                   looked |-> FALSE, viewed |-> FALSE]
       IN  mwReqs' = Append(mwReqs,
               IF ip \in BlockedIP
               THEN [rec EXCEPT !.pc = "done", !.resp = AccessDenied]
               ELSE rec)
    /\ UNCHANGED <<tokenVars, users, queueVars, workerVars, reviewVars, geoVars, accountVars, loginVars, catalogVars, imageVars, BlockedIP, RequestLog, geoCache>>

\* get_geolocation, lines 28-53

\* timeout=86400 of cache.set
GeoTimeout == 86400
GeoDefault == [country |-> "", city |-> ""]
\* cache.get of a key that has no live entry
None == [none |-> TRUE]

\* what requests.get and response.json() can do: an answer 200 with the two
\* names or without the city, an answer that is not 200, an answer 200 whose
\* body is not JSON, no answer within the 3 seconds
ApiOk ==
    [raises |-> "", status_code |-> 200,
     json |-> [country_name |-> "Kenya", city |-> "Nairobi"]]
ApiTimeout ==
    [raises |-> "Timeout", status_code |-> 0, json |-> [message |-> ""]]
ApiResponses ==
    {ApiOk, ApiTimeout,
     [raises |-> "", status_code |-> 200, json |-> [country_name |-> "Kenya"]],
     [raises |-> "", status_code |-> 429, json |-> [message |-> "Too many"]],
     [raises |-> "JSONDecodeError", status_code |-> 200, json |-> [message |-> ""]]}
NoResponse == [raises |-> "", status_code |-> 0, json |-> [message |-> ""]]

\* f"geo_{ip}"
cache_key(ip) == "geo_" \o ip

\* cache.get(key): the value of the entry that has not expired
cache_get(key) ==
    IF key \in DOMAIN geoCache /\ geoClock < geoCache[key].expires
    THEN geoCache[key].value ELSE None

\* cache.set(key, value, timeout); 'at' is history: when the entry was written
cache_set(key, value, timeout) ==
    Put(geoCache, key,
        [value |-> value, expires |-> geoClock + timeout, at |-> geoClock])

\* the truth value of what cache.get returned: None and {} are false
Truthy(v) == v # None /\ DOMAIN v # {}

\* data.get(key, '')
DataGet(data, key) == IF key \in DOMAIN data THEN data[key] ELSE ""

\* lines 45-48
GeoResult(resp) ==
    [country |-> DataGet(resp.json, "country_name"),
     city |-> DataGet(resp.json, "city")]

\* a response of any status takes lines 44-50: the mutant of Fetched
FetchedAnyStatus(resp) == resp.raises = ""

\* the call reaches cache.set: nothing was raised and line 43 holds
Fetched(resp) == resp.raises = "" /\ resp.status_code = 200

\* what the call returns after requests.get, and the cache it leaves
GeoReturn(resp) == IF Fetched(resp) THEN GeoResult(resp) ELSE GeoDefault
GeoCacheAfter(ip, resp) ==
    IF Fetched(resp)
    THEN cache_set(cache_key(ip), GeoResult(resp), GeoTimeout)
    ELSE geoCache

\* get_geolocation(ip) inside the middleware
MwGeo(r, resp) ==
    /\ r \in DOMAIN mwReqs
    /\ mwReqs[r].pc = "geo"
    /\ mwReqs' = [mwReqs EXCEPT ![r].pc = "log", ![r].looked = TRUE]
    /\ geoCache' = IF Truthy(cache_get(cache_key(mwReqs[r].ip)))
                   THEN geoCache
                   ELSE GeoCacheAfter(mwReqs[r].ip, resp)
    /\ UNCHANGED <<tokenVars, users, queueVars, workerVars, reviewVars, geoVars, accountVars, loginVars, catalogVars, imageVars, BlockedIP, RequestLog>>

\* RequestLog.objects.create(...)
MwLog(r) ==
    /\ r \in DOMAIN mwReqs
    /\ mwReqs[r].pc = "log"
    /\ RequestLog' = Append(RequestLog,
           [ip_address |-> mwReqs[r].ip, path |-> mwReqs[r].path, request |-> r])
    /\ mwReqs' = [mwReqs EXCEPT ![r].pc = "view"]
    /\ UNCHANGED <<tokenVars, users, queueVars, workerVars, reviewVars, geoVars, accountVars, loginVars, catalogVars, imageVars, BlockedIP, geoCache>>

\* self.get_response(request)
MwView(r) ==
    /\ r \in DOMAIN mwReqs
    /\ mwReqs[r].pc = "view"
    /\ mwReqs' = [mwReqs EXCEPT ![r].pc = "done", ![r].viewed = TRUE,
                                ![r].resp = ViewResponse]
    /\ UNCHANGED <<tokenVars, users, queueVars, workerVars, reviewVars, geoVars, accountVars, loginVars, catalogVars, imageVars, BlockedIP, RequestLog, geoCache>>

NextMw ==
    \/ \E ip \in Ips : BlockIp(ip)
    \/ \E xff \in XffChoices, remote \in Ips, path \in Paths :
           MwCall(xff, remote, path)
    \/ \E r \in 1..MaxMwReqs, resp \in {ApiOk, ApiTimeout} : MwGeo(r, resp)
    \/ \E r \in 1..MaxMwReqs : MwLog(r)
    \/ \E r \in 1..MaxMwReqs : MwView(r)

SpecMw == Init /\ [][NextMw]_vars

\* the client IP as the claim names it: the first entry of X-Forwarded-For
\* when the header has one, else REMOTE_ADDR
ClientIp(req) ==
    IF req.xff # NoHeader /\ req.xff[1] # ""
    THEN strip(req.xff[1]) ELSE req.remote

\* C18: a request whose client IP was in BlockedIP when the middleware made
\* its test is answered 403 'Access denied', has no RequestLog row, made no
\* geolocation lookup and never reached the view
C18_BlockedIpGetsNothing ==
    \A r \in DOMAIN mwReqs :
        ClientIp(mwReqs[r]) \in mwReqs[r].blocked
        => /\ mwReqs[r].pc = "done"
           /\ mwReqs[r].resp = AccessDenied
           /\ ~mwReqs[r].looked
           /\ ~mwReqs[r].viewed
           /\ \A i \in DOMAIN RequestLog : RequestLog[i].request # r

\* a request refused for the first entry of its X-Forwarded-For, sent from an
\* address that is not blocked, after a request from that IP was served
C18_Witness ==
    \E r, q \in DOMAIN mwReqs :
        /\ q < r
        /\ mwReqs[q].viewed /\ mwReqs[q].ip = mwReqs[r].ip
        /\ mwReqs[r].xff = <<" ip2 ">> /\ mwReqs[r].remote = "ip1"
        /\ mwReqs[r].blocked = {"ip2"}
        /\ mwReqs[r].resp = AccessDenied
        /\ Len(RequestLog) = 1

-----------------------------------------------------------------------------
\* get_geolocation called on its own: the read of the cache and the request
\* to the API are two steps, and calls overlap as the requests of the site do.

NoEntry ==
    [value |-> GeoDefault, expires |-> 0, at |-> 0]

\* lines 34-36: cache.get, and the return of what it gave. 'entry' and 'time'
\* are history: the entry of the key and the clock when the cache was read
GeoGet(ip) ==
    /\ Len(geoCalls) < MaxGeoCalls
    /\ LET key == cache_key(ip)
           cached == cache_get(key)
           call == [ip |-> ip, pc |-> "api", ret |-> GeoDefault,
                    asked |-> FALSE, response |-> NoResponse,
                    had |-> key \in DOMAIN geoCache,
                    entry |-> IF key \in DOMAIN geoCache
                              THEN geoCache[key] ELSE NoEntry,
                    time |-> geoClock]
       IN  geoCalls' = Append(geoCalls,
               IF Truthy(cached)
               THEN [call EXCEPT !.pc = "done", !.ret = cached]
               ELSE call)
    /\ UNCHANGED <<tokenVars, users, queueVars, workerVars, reviewVars, accountVars, loginVars, catalogVars, imageVars, mwVars, geoClock>>

\* lines 38-53: requests.get and what follows it
GeoApi(c, resp) ==
    /\ c \in DOMAIN geoCalls
    /\ geoCalls[c].pc = "api"
    /\ geoCalls' = [geoCalls EXCEPT ![c].pc = "done", ![c].asked = TRUE,
                                    ![c].response = resp,
                                    ![c].ret = GeoReturn(resp)]
    /\ geoCache' = GeoCacheAfter(geoCalls[c].ip, resp)
    /\ UNCHANGED <<tokenVars, users, queueVars, workerVars, reviewVars, accountVars, loginVars, catalogVars, imageVars, BlockedIP, RequestLog, mwReqs, geoClock>>

\* twelve hours pass
HalfDay == GeoTimeout \div 2
GeoTick ==
    /\ geoClock < MaxGeoTicks * HalfDay
    /\ geoClock' = geoClock + HalfDay
    /\ UNCHANGED <<tokenVars, users, queueVars, workerVars, reviewVars, accountVars, loginVars, catalogVars, imageVars, mwVars, geoCalls>>

NextGeo ==
    \/ \E ip \in Ips : GeoGet(ip)
    \/ \E c \in 1..MaxGeoCalls, resp \in ApiResponses : GeoApi(c, resp)
    \/ GeoTick

SpecGeo == Init /\ [][NextGeo]_vars

\* the claim's words: 24 hours, a lookup that failed (a status that is not
\* 200, an exception or a timeout), an entry that is live when a call reads
\* the cache
TwentyFourHours == 24 * 60 * 60
LookupFailed(resp) == resp.raises # "" \/ resp.status_code # 200
LiveFor(call) == call.had /\ call.time - call.entry.at < TwentyFourHours

\* every call that found a live entry returned its value and asked the API
\* nothing; every other call asks the API; a call whose lookup failed
\* returned the empty names
C25_Calls ==
    \A c \in DOMAIN geoCalls :
        LET call == geoCalls[c]
        IN  /\ LiveFor(call)
               => call.pc = "done" /\ ~call.asked /\ call.ret = call.entry.value
            /\ (~LiveFor(call) /\ call.pc = "done") => call.asked
            /\ (call.asked /\ LookupFailed(call.response))
               => call.ret = GeoDefault

\* the lookup of a call ends: a success leaves under geo_<ip> what the call
\* returns, live for 24 hours from now, a failure leaves the cache as it was
C25_Lookup ==
    \A c \in DOMAIN geoCalls :
        (geoCalls[c].pc = "api" /\ geoCalls'[c].pc = "done")
        => LET call == geoCalls'[c]
               key == cache_key(call.ip)
           IN  IF LookupFailed(call.response)
               THEN geoCache' = geoCache
               ELSE /\ key \in DOMAIN geoCache'
                    /\ geoCache'[key].value = call.ret
                    /\ geoCache'[key].at = geoClock
                    /\ geoCache'[key].expires = geoClock + TwentyFourHours
                    /\ \A k \in DOMAIN geoCache :
                           k # key => k \in DOMAIN geoCache'
                                      /\ geoCache'[k] = geoCache[k]

\* C25: get_geolocation caches the result of a successful lookup under
\* geo_<ip> for 24 hours, every call made while that entry is live returns
\* the cached value without a request to the API, and a failed lookup returns
\* {'country': '', 'city': ''} and writes nothing to the cache, so that the
\* next call for the IP asks the API again
C25_GeolocationIsCachedOnSuccessOnly ==
    []C25_Calls /\ [][C25_Lookup]_vars

\* a lookup timed out, the next call for the IP asked the API again and was
\* answered, a third call returned the cached names without asking, and a
\* fourth, made after the 24 hours, asked again
C25_Witness ==
    \E a, b, c, d \in DOMAIN geoCalls :
        /\ a < b /\ b < c /\ c < d
        /\ \A x \in {a, b, c, d} : geoCalls[x].ip = "ip1" /\ geoCalls[x].pc = "done"
        /\ geoCalls[a].response = ApiTimeout /\ geoCalls[a].ret = GeoDefault
        /\ geoCalls[b].asked /\ geoCalls[b].response = ApiOk
        /\ ~geoCalls[c].asked /\ geoCalls[c].ret = GeoResult(ApiOk)
        /\ geoCalls[d].had /\ geoCalls[d].asked
        /\ geoCalls[d].time - geoCalls[d].entry.at = TwentyFourHours

-----------------------------------------------------------------------------
\* ProductImageViewSet: create, update and partial_update, each a validation
\* that reads the table and a save() that writes it.

Products == {"pA", "pB"}
\* image_id: a fresh one for every row
ImageIds == [i \in 1..MaxImgReqs |-> "i" \o ToString(i)]
\* a field the request does not carry; a boolean arrives as "true" or "false"
Absent == "absent"

\* request.data: PUT and POST must name the product, PATCH need not; none
\* must carry is_primary
ImageData(partial) ==
    [product : IF partial THEN Products \cup {Absent} ELSE Products,
     is_primary : {"true", "false", Absent}]

PrimaryOf(tbl, product) ==
    {i \in DOMAIN tbl : tbl[i].product = product /\ tbl[i].is_primary = TRUE}

\* a table without the constraint: the mutant of ViolatesUniquePrimary
ViolatesNothing(tbl) == FALSE

\* UniqueConstraint(fields=["product"], condition=Q(is_primary=True)): the
\* database refuses a write that would leave such a table
ViolatesUniquePrimary(tbl) ==
    \E product \in Products : Cardinality(PrimaryOf(tbl, product)) > 1

\* ProductImageSerializer.validate: TRUE when it raises ValidationError
ValidateRaises(data, instance) ==
    LET is_primary == data.is_primary = "true"
        product == data.product
    IN  /\ is_primary /\ product # Absent
        /\ PrimaryOf(images, product) \ {instance} # {}

PrimaryTaken ==
    [status |-> 400, detail |-> "This product already has a primary image."]
ImageNotFound == Resp(404, "Not found.")
ImageSaved(status) == Resp(status, "image")

ImgAnswer(r, rec, resp) ==
    /\ imgReqs' = [imgReqs EXCEPT ![r] = NoImgReq]
    /\ imgLast' = [rec EXCEPT !.pc = "done", !.resp = resp]

\* POST, PUT, PATCH up to the end of is_valid(): get_object() reads the row
\* into the instance, validate() reads the table
ImgRequest(action, id, data) ==
    /\ Len(imgReqs) < MaxImgReqs
    /\ LET r == Len(imgReqs) + 1
           found == id \in DOMAIN images
           rec == [pc |-> "save", action |-> action, id |-> id, data |-> data,
                   instance |-> IF found THEN images[id]
                                ELSE [product |-> Absent, is_primary |-> FALSE],
                   resp |-> NoResp]
       IN  IF action # "create" /\ ~found
           THEN /\ imgReqs' = Append(imgReqs, NoImgReq)
                /\ imgLast' = [rec EXCEPT !.pc = "done", !.resp = ImageNotFound]
           ELSE IF ValidateRaises(data, IF action = "create" THEN Absent ELSE id)
           THEN /\ imgReqs' = Append(imgReqs, NoImgReq)
                /\ imgLast' = [rec EXCEPT !.pc = "done", !.resp = PrimaryTaken]
           ELSE /\ imgReqs' = Append(imgReqs, rec)
                /\ UNCHANGED imgLast
    /\ UNCHANGED <<tokenVars, users, queueVars, workerVars, reviewVars, geoVars, accountVars, loginVars, catalogVars, mwVars, images>>

\* the row serializer.save() writes: the instance with the fields of the
\* validated data set; a new row takes the model's default for is_primary
RowToSave(rec) ==
    [product |-> IF rec.data.product = Absent THEN rec.instance.product
                 ELSE rec.data.product,
     is_primary |-> IF rec.data.is_primary = Absent THEN rec.instance.is_primary
                    ELSE rec.data.is_primary = "true"]

\* serializer.save(): INSERT for create, UPDATE of every field for the others;
\* an IntegrityError is caught by nobody
ImgSave(r) ==
    /\ r \in DOMAIN imgReqs
    /\ imgReqs[r].pc = "save"
    /\ LET rec == imgReqs[r]
           id == IF rec.action = "create"
                 THEN ImageIds[Cardinality(DOMAIN images) + 1] ELSE rec.id
           tbl == Put(images, id, RowToSave(rec))
       IN  IF ViolatesUniquePrimary(tbl)
           THEN /\ UNCHANGED images
                /\ ImgAnswer(r, rec, ServerError)
           ELSE /\ images' = tbl
                /\ ImgAnswer(r, [rec EXCEPT !.id = id],
                       ImageSaved(IF rec.action = "create" THEN 201 ELSE 200))
    /\ UNCHANGED <<tokenVars, users, queueVars, workerVars, reviewVars, geoVars, accountVars, loginVars, catalogVars, mwVars>>

NextImages ==
    \/ \E data \in ImageData(FALSE) : ImgRequest("create", Absent, data)
    \/ \E i \in 1..MaxImgReqs, data \in ImageData(FALSE) :
           ImgRequest("update", ImageIds[i], data)
    \/ \E i \in 1..MaxImgReqs, data \in ImageData(TRUE) :
           ImgRequest("partial_update", ImageIds[i], data)
    \/ \E r \in 1..MaxImgReqs : ImgSave(r)

SpecImages == Init /\ [][NextImages]_vars

\* C19: every product has at most one image with is_primary = True
C19_AtMostOnePrimaryImage ==
    \A product \in Products : Cardinality(PrimaryOf(images, product)) <= 1

\* a PATCH of is_primary alone passed validate(), which tests nothing
\* without a product, and was stopped by the constraint: the product keeps
\* its one primary image among two
C19_Witness ==
    /\ imgLast.pc = "done" /\ imgLast.resp = ServerError
    /\ imgLast.action = "partial_update"
    /\ imgLast.data = [product |-> Absent, is_primary |-> "true"]
    /\ \E product \in Products :
           /\ Cardinality(PrimaryOf(images, product)) = 1
           /\ imgLast.id \notin PrimaryOf(images, product)
           /\ images[imgLast.id].product = product

-----------------------------------------------------------------------------
\* catalogue/permissions.py, ProductViewSet and CategoryViewSet

SAFE_METHODS == {"GET", "HEAD", "OPTIONS"}
Methods == SAFE_METHODS \cup {"POST", "PUT", "PATCH", "DELETE"}
CatalogModels == {"product", "category"}
RowIds == 1..2

\* request.user: AnonymousUser, a customer, an admin
RequestUsers ==
    {AnonymousUser,
     [is_authenticated |-> TRUE, is_staff |-> FALSE],
     [is_authenticated |-> TRUE, is_staff |-> TRUE]}

\* any user who logged in may write: the mutant of has_permission
has_permission_authenticated(method, user) ==
    IF method \in SAFE_METHODS THEN TRUE ELSE user.is_authenticated

\* IsAdminOrReadOnly.has_permission; request.user is an object, so
\* "request.user and request.user.is_staff" is request.user.is_staff
has_permission(method, user) ==
    IF method \in SAFE_METHODS THEN TRUE ELSE user.is_staff

\* APIView.permission_denied
Denied(user) ==
    IF user.is_authenticated
    THEN Resp(403, "You do not have permission to perform this action.")
    ELSE Resp(401, "Authentication credentials were not provided.")

\* the tables and the response of the viewset's handler for the method
Handled(method, model, id) ==
    LET row == <<model, id>>
    IN  IF method \in SAFE_METHODS
        THEN [tbl |-> catalog,
              resp |-> IF method # "OPTIONS" /\ row \notin DOMAIN catalog
                       THEN Resp(404, "Not found.") ELSE Resp(200, "")]
        ELSE IF method = "POST"
        THEN IF row \in DOMAIN catalog
             THEN [tbl |-> catalog, resp |-> Resp(400, "")]
             ELSE [tbl |-> Put(catalog, row, 1), resp |-> Resp(201, "")]
        ELSE IF row \notin DOMAIN catalog
        THEN [tbl |-> catalog, resp |-> Resp(404, "Not found.")]
        ELSE IF method = "DELETE"
        THEN [tbl |-> Drop(catalog, row), resp |-> Resp(204, "")]
        ELSE [tbl |-> Put(catalog, row, catalog[row] + 1), resp |-> Resp(200, "")]

\* one request to /api/products/ or /api/categories/: check_permissions, then
\* the handler
CatalogRequest(method, user, model, id) ==
    /\ napi < MaxApiReqs
    /\ napi' = napi + 1
    /\ LET req == [method |-> method, user |-> user, model |-> model, id |-> id,
                   resp |-> NoResp]
           out == Handled(method, model, id)
       IN  IF ~has_permission(method, user)
           THEN /\ apiLast' = [req EXCEPT !.resp = Denied(user)]
                /\ UNCHANGED <<catalog, changes>>
           ELSE /\ apiLast' = [req EXCEPT !.resp = out.resp]
                /\ catalog' = out.tbl
                /\ changes' = IF out.tbl # catalog THEN changes \cup {req}
                              ELSE changes
    /\ UNCHANGED <<tokenVars, users, queueVars, workerVars, reviewVars, geoVars, accountVars, loginVars, mwVars, imageVars>>

NextCatalog ==
    \E method \in Methods, user \in RequestUsers, model \in CatalogModels,
       id \in RowIds : CatalogRequest(method, user, model, id)

SpecCatalog == Init /\ [][NextCatalog]_vars

\* C20: a GET, HEAD or OPTIONS request is never denied; a request with
\* another method is denied unless request.user.is_staff is True; every write
\* to a product or a category was made by a staff user
C20_OnlyStaffWrites ==
    /\ apiLast.method \in SAFE_METHODS => apiLast.resp.status \notin {401, 403}
    /\ (apiLast.method \in Methods \ SAFE_METHODS)
          => (apiLast.resp.status \in {401, 403} <=> ~apiLast.user.is_staff)
    /\ \A req \in changes : req.user.is_staff
    /\ (changes = {}) => (catalog = << >>)

\* a customer's DELETE of a product a staff user created is denied, and the
\* product is still there
C20_Witness ==
    /\ apiLast.method = "DELETE" /\ apiLast.model = "product"
    /\ apiLast.user = [is_authenticated |-> TRUE, is_staff |-> FALSE]
    /\ apiLast.resp.status = 403
    /\ <<"product", apiLast.id>> \in DOMAIN catalog
    /\ \E req \in changes : req.method = "POST" /\ req.user.is_staff

-----------------------------------------------------------------------------
\* ReviewSerializer: a review creation is is_valid(), which reads the table,
\* then save(), which inserts the row.

\* data["user"]: a user, or None
NullUser == ""
Reviewers == {"u1", "u2", NullUser}
Ratings == {0, 1, 5, 6}

\* validate_rating: TRUE when it raises
RatingRaises(value) == ~(1 <= value /\ value <= 5)

ReviewsOf(tbl, user, product) ==
    {i \in DOMAIN tbl : tbl[i].user = user /\ tbl[i].product = product}

\* Review.objects.filter(product=product, user=user).exists()
ReviewExists(user, product) == ReviewsOf(reviews, user, product) # {}

\* validate, for a creation (self.instance is None): TRUE when it raises
DuplicateRaises(data) ==
    data.user # NullUser /\ ReviewExists(data.user, data.product)

\* POST up to the end of is_valid(): a rejected request is answered 400 and
\* leaves nothing behind
ReviewCreate(data) ==
    /\ Len(revReqs) < MaxRevReqs
    /\ revReqs' = Append(revReqs,
           [pc |-> IF RatingRaises(data.rating) \/ DuplicateRaises(data)
                   THEN "rejected" ELSE "save",
            data |-> data])
    /\ UNCHANGED <<tokenVars, users, queueVars, workerVars, geoVars, accountVars, loginVars, mwVars, imageVars, catalogVars,
                   reviews>>

\* serializer.save(): the INSERT
ReviewSave(r) ==
    /\ r \in DOMAIN revReqs
    /\ revReqs[r].pc = "save"
    /\ reviews' = Append(reviews, revReqs[r].data)
    /\ revReqs' = [revReqs EXCEPT ![r].pc = "created"]
    /\ UNCHANGED <<tokenVars, users, queueVars, workerVars, geoVars, accountVars, loginVars, mwVars, imageVars, catalogVars>>

NextReviews ==
    \/ \E data \in [user : Reviewers, product : Products, rating : Ratings] :
           ReviewCreate(data)
    \/ \E r \in 1..MaxRevReqs : ReviewSave(r)

SpecReviews == Init /\ [][NextReviews]_vars

\* C21: each (user, product) pair with a non-null user has at most one
\* review, and every review's rating is between 1 and 5
C21_OneReviewPerUserAndProduct ==
    \A i \in DOMAIN reviews :
        /\ 1 <= reviews[i].rating /\ reviews[i].rating <= 5
        /\ reviews[i].user # NullUser
              => Cardinality(ReviewsOf(reviews, reviews[i].user,
                                       reviews[i].product)) <= 1

-----------------------------------------------------------------------------
\* The minting endpoints with the task queue, and email verification.

NextMint ==
    \/ \E u \in Uids : Register(u)
    \/ \E u \in Uids : RegisterAdmin(u)
    \/ \E u \in Uids : Resend(u)
    \/ \E u \in Uids : ResendRefused(u)
    \/ \E u \in Uids : PasswordResetRequest(u)
    \/ \E net \in NetOutcomes : MintStore(net)
    \/ Enqueue
    \/ \E p \in Procs, tok \in minted : Request(p, "verify", tok)
    \/ \E p \in Procs : PopGetdel(p)
    \/ \E p \in Procs : Lookup(p)
    \/ \E p \in Procs : Save(p)
    \/ Tick

SpecMint == Init /\ [][NextMint]_vars

\* the tokens whose URL a message of the queue carries
Mailed(box) == {msg.token : msg \in box}
\* the minting request of the token is still running
BeingMinted(tok) == mint.pc # "idle" /\ mint.token = tok

\* C22: a message is enqueued only by the request that minted its token,
\* after store() created the token's record; a token whose request ended
\* without a message (store() raised) never gets one
C22_RegisteredBeforeMailed ==
    /\ [](\A tok \in Mailed(outbox) : Registered(tok))
    /\ [][\A tok \in minted' :
            /\ (tok \in Mailed(outbox') \ Mailed(outbox))
                  => (mint.pc = "email" /\ mint.token = tok /\ Registered(tok))
            /\ (tok \in minted /\ ~BeingMinted(tok) /\ tok \notin Mailed(outbox))
                  => tok \notin Mailed(outbox')]_vars

\* one token mailed after its record was created, and one whose store() call
\* never reached the server: no record, no message
C22_Witness ==
    \E sent, unsent \in minted :
        /\ sent \in Mailed(outbox) /\ Registered(sent)
        /\ unsent \notin Mailed(outbox) /\ ~BeingMinted(unsent)
        /\ ~Registered(unsent)
        /\ unsent.token_type = "password_reset"

\* a resend request was refused in this step
Refusal == resent' # resent /\ resent'.resp # VerificationResent

\* C23: a resend request mints only for a user who exists and is not active;
\* for an unknown email it answers 404, for an active user 400, and these
\* mint no token, store no record and enqueue no message
C23_ResendOnlyForUnverified ==
    [][/\ (mint.pc = "idle" /\ mint'.pc = "store" /\ mint'.view = "resend")
          => /\ users[mint'.token.user_id].state = "present"
             /\ ~users[mint'.token.user_id].is_active
       /\ Refusal
          => /\ resent'.resp = IF users[resent'.user].state # "present"
                               THEN Resp(404, "User not found.")
                               ELSE Resp(400, "Email already verified.")
             /\ users[resent'.user].state # "present" \/ users[resent'.user].is_active
             /\ minted' = minted /\ mint' = mint
             /\ redis' = redis /\ created' = created
             /\ outbox' = outbox
       /\ (resent' # resent /\ resent'.resp = VerificationResent)
          => \E msg \in outbox' \ outbox :
                 /\ msg.token.user_id = resent'.user
                 /\ msg.task = "send_verification_email"
                 /\ Registered(msg.token)]_vars

\* a resend for a verified user refused with 400, after a resend for the
\* same user, then unverified, was mailed
C23_Witness ==
    /\ resent.resp = Resp(400, "Email already verified.")
    /\ users[resent.user].is_active
    /\ Cardinality({msg \in outbox : msg.token.user_id = resent.user}) = 2

-----------------------------------------------------------------------------
\* catalogue/tasks.py: the three email tasks, run by a Celery worker

\* @shared_task(bind=True, max_retries=3, default_retry_delay=30, ...)
max_retries == 3
default_retry_delay == 30

Tasks ==
    {"send_verification_email", "send_password_reset_email",
     "send_account_deleted_email"}

RunKey(msg) == <<msg.task, msg.token.jti>>
NoRuns == [n |-> 0, state |-> "queued"]
RunsOf(key) == IF key \in DOMAIN runs THEN runs[key] ELSE NoRuns

\* <task>.delay(...) by any caller
Delay(task) ==
    /\ ndelays < MaxTasks
    /\ ndelays' = ndelays + 1
    /\ outbox' = outbox \cup
           {Message(task, [NoToken EXCEPT !.jti = JtiNames[ndelays + 1]], 0)}
    /\ UNCHANGED <<tokenVars, users, siteVars, resent, runs>>

\* a retry whatever request.retries: the mutant of retry
retry_forever(msg) ==
    [queue |-> {[msg EXCEPT !.retries = @ + 1, !.countdown = default_retry_delay]},
     state |-> "retrying"]

\* self.retry(exc=exc): a new message with retries + 1 and the default
\* countdown, unless request.retries has reached max_retries: then exc is
\* raised and the task has failed
retry(msg) ==
    IF msg.retries >= max_retries
    THEN [queue |-> {}, state |-> "failed"]
    ELSE [queue |-> {[msg EXCEPT !.retries = @ + 1,
                                 !.countdown = default_retry_delay]},
          state |-> "retrying"]

\* a worker takes a message that is due and runs the task body: send_mail
\* returns, or raises and the except clause calls self.retry
Execute(msg, sent) ==
    /\ msg \in outbox
    /\ msg.countdown = 0
    /\ LET key == RunKey(msg)
           out == IF sent THEN [queue |-> {}, state |-> "succeeded"]
                  ELSE retry(msg)
       IN  /\ outbox' = (outbox \ {msg}) \cup out.queue
           /\ runs' = Put(runs, key, [n |-> RunsOf(key).n + 1, state |-> out.state])
    /\ UNCHANGED <<tokenVars, users, siteVars, resent, ndelays>>

\* default_retry_delay seconds pass while a message waits
Pass ==
    /\ \E msg \in outbox : msg.countdown > 0
    /\ outbox' = {[msg EXCEPT !.countdown = 0] : msg \in outbox}
    /\ UNCHANGED <<tokenVars, users, siteVars, resent, runs, ndelays>>

Work == \E msg \in outbox, sent \in BOOLEAN : Execute(msg, sent)

NextTasks ==
    \/ \E task \in Tasks : Delay(task)
    \/ Work
    \/ Pass

\* the worker keeps running and time keeps passing
SpecTasks == Init /\ [][NextTasks]_vars /\ WF_vars(Work) /\ WF_vars(Pass)

\* C24: a task is executed at most max_retries + 1 times; a failed attempt
\* puts one message back, due in default_retry_delay seconds, unless it was
\* the attempt after the last retry, which puts none back; an attempt that
\* succeeds puts none back and the task is never run again; every task that
\* is enqueued is over at some time
C24_EmailTaskTerminates ==
    /\ [](\A key \in DOMAIN runs :
            /\ runs[key].n <= max_retries + 1
            /\ runs[key].state \in {"succeeded", "failed"}
                  => \A msg \in outbox : RunKey(msg) # key
            /\ runs[key].state = "failed" => runs[key].n = max_retries + 1
            /\ runs[key].state = "retrying"
                  => \E msg \in outbox :
                         /\ RunKey(msg) = key
                         /\ msg.retries = runs[key].n
                         /\ \A other \in outbox :
                                RunKey(other) = key => other = msg)
    /\ [][\A key \in DOMAIN runs' :
            /\ (RunsOf(key).state \in {"succeeded", "failed"})
                  => runs'[key] = runs[key]
            /\ (RunsOf(key).n < runs'[key].n /\ runs'[key].state = "retrying")
                  => \E msg \in outbox' :
                         RunKey(msg) = key /\ msg.countdown = default_retry_delay]_vars
    /\ (outbox # {}) ~> (outbox = {})

\* one task failed four times and is over, another succeeded at its second
\* attempt; the queue is empty
C24_Witness ==
    /\ outbox = {}
    /\ \E failed, ok \in DOMAIN runs :
           /\ runs[failed] = [n |-> max_retries + 1, state |-> "failed"]
           /\ runs[ok] = [n |-> 2, state |-> "succeeded"]

-----------------------------------------------------------------------------
\* ProfileView (PATCH, PUT) and ChangePasswordView, both IsAuthenticated:
\* request.user is the row the authentication read, and the authentication of
\* an access token refuses a user who is not active.

AccountViews == {"profile", "change_password"}

\* the request up to save(): the authentication, then is_valid() and, in
\* ChangePasswordView, check_password(old_password)
AccountRequest(u, view, valid) ==
    /\ Len(accReqs) < MaxAccReqs
    /\ users[u].state = "present"
    /\ users[u].is_active
    /\ accReqs' = Append(accReqs,
           [user |-> u, view |-> view, instance |-> users[u],
            pc |-> IF valid THEN "save" ELSE "done"])
    /\ UNCHANGED <<tokenVars, users, queueVars, workerVars, loginVars, mwVars,
                   imageVars, catalogVars, reviewVars, geoVars>>

\* serializer.save() of ProfileView, set_password and user.save() of
\* ChangePasswordView: each writes every field of request.user
AccountSave(r) ==
    /\ r \in DOMAIN accReqs
    /\ accReqs[r].pc = "save"
    /\ users' = [users EXCEPT ![accReqs[r].user] =
           IF accReqs[r].view = "change_password"
           THEN [accReqs[r].instance EXCEPT !.password = "pw2"]
           ELSE accReqs[r].instance]
    /\ accReqs' = [accReqs EXCEPT ![r].pc = "done"]
    /\ UNCHANGED <<tokenVars, queueVars, workerVars, loginVars, mwVars,
                   imageVars, catalogVars, reviewVars, geoVars>>

\* the endpoints that create or save a user
NextActive ==
    \/ \E u \in Uids : Register(u)
    \/ \E u \in Uids : RegisterAdmin(u)
    \/ \E u \in Uids : Resend(u)
    \/ \E u \in Uids : PasswordResetRequest(u)
    \/ \E net \in NetOutcomes : MintStore(net)
    \/ MintEmail
    \/ \E p \in Procs, view \in {"verify", "reset"}, tok \in minted :
           Request(p, view, tok)
    \/ \E p \in Procs : PopGetdel(p)
    \/ \E p \in Procs : Lookup(p)
    \/ \E p \in Procs : Save(p)
    \/ \E u \in Uids, view \in AccountViews, valid \in BOOLEAN :
           AccountRequest(u, view, valid)
    \/ \E r \in 1..MaxAccReqs : AccountSave(r)

SpecActive == Init /\ [][NextActive]_vars

\* the step is the save() of a verification whose pop('email', jti) returned
\* True, for a token of user u
VerifiedSave(u) ==
    \E p \in Procs :
        /\ procs[p].pc = "save" /\ procs'[p] = IdleProc
        /\ procs[p].view = "verify"
        /\ procs[p].token.token_type = "email"
        /\ procs[p].token.user_id = u
        /\ Cnt(won, PairOf(procs[p].token)) >= 1

\* C26: a user created by register or register-admin starts with is_active
\* False; is_active becomes True only in the save of VerifyEmailView after
\* pop('email', jti) returned True for a token of that user; no endpoint sets
\* it to True otherwise and none sets it back to False
C26_ActiveOnlyByVerifiedPop ==
    [][\A u \in Uids :
          /\ (users[u].state = "absent" /\ users'[u].state = "present")
             => ~users'[u].is_active
          /\ (users[u].state = "present" /\ users'[u].state = "present")
             => /\ (~users[u].is_active /\ users'[u].is_active)
                   => VerifiedSave(u)
                /\ ~(users[u].is_active /\ ~users'[u].is_active)]_vars

====
